---- MODULE Spec2Model ----
(***************************************************************************)
(* A model of the storage layer of the expense tracker (src/database.py)   *)
(* and of the calls src/app.py makes into it.  The three tables of the     *)
(* SQLite file are the state; every storage function is one action, except *)
(* create_user, whose SELECT and INSERT are two statements of two          *)
(* different implicit transactions and are therefore two steps that calls  *)
(* of other sessions can come between.                                     *)
(*                                                                         *)
(* Text is modelled as a sequence of characters: user names and passwords  *)
(* as sequences of one-character strings, dates and months as sequences of *)
(* character codes, because SQLite compares TEXT byte by byte.             *)
(* An Optional value is a sequence of length at most one.                  *)
(***************************************************************************)
EXTENDS Integers, Sequences, FiniteSets, TLC

VARIABLES
    users,     \* table users: id -> [username, password_hash, salt]
    userSeq,   \* sqlite_sequence row of users (AUTOINCREMENT)
    pc,        \* per session: where its create_user call stands
    pending,   \* per session: the locals of its create_user call
    created,   \* history: the create_user calls that returned an identifier
    expenses,  \* table expenses: id -> [user_id, date, category, amount, note]
    expSeq,    \* sqlite_sequence row of expenses (AUTOINCREMENT)
    budgets,   \* table budgets: a set of rows [user_id, month, amount]
    last       \* the call that returned last: its arguments and its outcome

vars == <<users, userSeq, pc, pending, created, expenses, expSeq, budgets, last>>

\* ------------------------------------------------------------- Optional
None == <<>>
Some(x) == <<x>>

\* ----------------------------------------------------------------- text
\* str.strip() with no argument: leading and trailing whitespace removed.
IsSpace(c) == c = " "

RECURSIVE lstrip(_)
lstrip(s) == IF s # <<>> /\ IsSpace(Head(s)) THEN lstrip(Tail(s)) ELSE s

RECURSIVE rstrip(_)
rstrip(s) ==
    IF s # <<>> /\ IsSpace(s[Len(s)]) THEN rstrip(SubSeq(s, 1, Len(s) - 1)) ELSE s

strip(s) == rstrip(lstrip(s))

\* ------------------------------------------------------------ the inputs
Sessions == {1, 2}
Usernames == { <<>>, <<" ">>, <<"a">>, <<" ", "a", " ">>, <<"b">> }
Passwords == { <<>>, <<"p">>, <<"q">> }
\* secrets.token_hex(16): any of the values the generator may return.
Salts == { <<"s">>, <<"t">> }

\* ---------------------------------------------------------------- users
\* A digest of the salt alone.
_hash_password_nopw(password, salt) == <<"sha256", salt>>

\* SHA-256 over salt + password: the digest is modelled as its input, that
\* is, as a collision-free function of the concatenation.
_hash_password(password, salt) == <<"sha256", salt \o password>>

\* SELECT ... FROM users WHERE username = ?  (BINARY collation: exact match)
select_user(username) == { i \in DOMAIN users : users[i].username = username }

NoCall == [op |-> "none", session |-> 0, username |-> <<>>, password |-> <<>>,
           user_id |-> 0, id |-> 0, month |-> <<>>, amount |-> 0,
           raised |-> FALSE, ret |-> None]

UsersFrame == UNCHANGED <<expenses, expSeq, budgets>>

\* create_user without the test of the SELECT's result.
create_user_check_noexists(s, username, password) ==
    LET name == strip(username) IN
    /\ pc[s] = "idle"
    /\ IF name = <<>> \/ password = <<>>
       THEN /\ last' = [NoCall EXCEPT !.op = "create_user", !.session = s,
                          !.username = username, !.password = password]
            /\ UNCHANGED <<pc, pending>>
       ELSE /\ pc' = [pc EXCEPT ![s] = "insert"]
            /\ pending' = [pending EXCEPT ![s] =
                             [raw |-> username, username |-> name, password |-> password]]
            /\ UNCHANGED last
    /\ UNCHANGED <<users, userSeq, created>>
    /\ UsersFrame

\* create_user up to and including its SELECT (lines 64-73).
create_user_check(s, username, password) ==
    LET name == strip(username) IN
    /\ pc[s] = "idle"
    /\ IF name = <<>> \/ password = <<>> \/ select_user(name) # {}
       THEN /\ last' = [NoCall EXCEPT !.op = "create_user", !.session = s,
                          !.username = username, !.password = password]
            /\ UNCHANGED <<pc, pending>>
       ELSE /\ pc' = [pc EXCEPT ![s] = "insert"]
            /\ pending' = [pending EXCEPT ![s] =
                             [raw |-> username, username |-> name, password |-> password]]
            /\ UNCHANGED last
    /\ UNCHANGED <<users, userSeq, created>>
    /\ UsersFrame

NoPending == [raw |-> <<>>, username |-> <<>>, password |-> <<>>]

\* create_user from the salt to the return (lines 74-82).  The INSERT and its
\* commit are one transaction, serialised by the store's file lock; the UNIQUE
\* constraint of users.username makes the INSERT raise sqlite3.IntegrityError,
\* which create_user does not catch.
create_user_insert(s) ==
    /\ pc[s] = "insert"
    /\ \E salt \in Salts :
         LET p == pending[s]
             user_id == userSeq + 1
         IN IF select_user(p.username) # {}
            THEN /\ last' = [NoCall EXCEPT !.op = "create_user", !.session = s,
                               !.username = p.raw, !.password = p.password,
                               !.raised = TRUE]
                 /\ UNCHANGED <<users, userSeq, created>>
            ELSE /\ users' = [i \in DOMAIN users \cup {user_id} |->
                                IF i = user_id
                                THEN [username |-> p.username,
                                      password_hash |-> _hash_password(p.password, salt),
                                      salt |-> salt]
                                ELSE users[i]]
                 /\ userSeq' = user_id
                 /\ created' = created \cup
                                 {[username |-> p.raw, password |-> p.password, id |-> user_id]}
                 /\ last' = [NoCall EXCEPT !.op = "create_user", !.session = s,
                               !.username = p.raw, !.password = p.password,
                               !.ret = Some(user_id)]
    /\ pc' = [pc EXCEPT ![s] = "idle"]
    /\ pending' = [pending EXCEPT ![s] = NoPending]
    /\ UsersFrame

\* What authenticate_user returns (lines 87-95).
authenticate_result(username, password) ==
    LET rows == select_user(strip(username)) IN
    IF rows = {} THEN None
    ELSE LET user_id == CHOOSE i \in rows : TRUE IN
         IF _hash_password(password, users[user_id].salt) = users[user_id].password_hash
         THEN Some(user_id) ELSE None

authenticate_user(username, password) ==
    /\ last' = [NoCall EXCEPT !.op = "authenticate_user",
                  !.username = username, !.password = password,
                  !.ret = authenticate_result(username, password)]
    /\ UNCHANGED <<users, userSeq, pc, pending, created>>
    /\ UsersFrame

\* ---------------------------------------------------------------- dates
\* Character codes, as SQLite's BINARY collation compares them.
Dash == 45
Chr(d) == 48 + d

\* The decimal digits of n, zero-padded to width w (%Y, %m, %d of strftime).
RECURSIVE Digits(_, _)
Digits(n, w) == IF w = 0 THEN <<>> ELSE Digits(n \div 10, w - 1) \o <<Chr(n % 10)>>

\* to_date_str / month_str of a date <<year, month, day>>.
to_date_str(d) == Digits(d[1], 4) \o <<Dash>> \o Digits(d[2], 2) \o <<Dash>> \o Digits(d[3], 2)
month_str(d) == Digits(d[1], 4) \o <<Dash>> \o Digits(d[2], 2)

\* TEXT comparison a < b (memcmp): the first differing byte decides, and a
\* proper prefix is less.
StrLess(a, b) ==
    LET n == IF Len(a) < Len(b) THEN Len(a) ELSE Len(b) IN
    IF SubSeq(a, 1, n) = SubSeq(b, 1, n) THEN Len(a) < Len(b)
    ELSE LET k == CHOOSE x \in 1..n :
                      a[x] # b[x] /\ SubSeq(a, 1, x - 1) = SubSeq(b, 1, x - 1)
         IN a[k] < b[k]

StrLE(a, b) == a = b \/ StrLess(a, b)

\* --------------------------------------------------- the inputs, continued
UserIds == {1, 2}
CalendarDates == { <<2024, 1, 5>>, <<2024, 1, 31>>, <<2024, 2, 1>> }
Dates == { to_date_str(d) : d \in CalendarDates }
Months == { month_str(d) : d \in CalendarDates }
Categories == {"Food", "Travel"}
\* The expenses a caller submits: <<date, category, amount, note>>.
ExpenseInputs ==
    { <<to_date_str(<<2024, 1, 5>>),  "Food",   1, None>>,
      <<to_date_str(<<2024, 1, 5>>),  "Travel", 2, Some("x")>>,
      <<to_date_str(<<2024, 1, 31>>), "Food",   2, Some("x")>>,
      <<to_date_str(<<2024, 2, 1>>),  "Travel", 0, None>>,
      <<to_date_str(<<2024, 2, 1>>),  "Food",  -1, Some("x")>> }
\* update_expense takes its note as a str.
NoteStr(note) == IF note = None THEN "" ELSE note[1]
DateFilters == {None} \cup { Some(d) : d \in Dates }
CategoryLists == { None, Some(<<>>), Some(<<"Food">>), Some(<<"Travel">>),
                   Some(<<"Food", "Travel">>) }
BudgetAmounts == {-1, 0, 1, 2}
\* The largest number of expenses ever added.
MaxExpenses == 2
ExpenseIds == 1..MaxExpenses

\* ------------------------------------------------------------- expenses
ExpensesFrame == UNCHANGED <<users, userSeq, pc, pending, created, budgets>>

\* A table without the CHECK clause.
check_amount_none(amount) == TRUE

\* CHECK(amount >= 0) of the expenses and budgets tables.
check_amount(amount) == amount >= 0

Raised(call) == [call EXCEPT !.raised = TRUE]

\* The note stored as given.
note_or_empty_keep(note) == IF note = None THEN "None" ELSE note[1]

\* note or ""
note_or_empty(note) == IF note = None \/ note = Some("") THEN "" ELSE note[1]

add_expense(user_id, date, category, amount, note) ==
    LET call == [NoCall EXCEPT !.op = "add_expense", !.user_id = user_id]
        rowid == expSeq + 1
    IN /\ expSeq < MaxExpenses
       /\ IF ~check_amount(amount)
          THEN /\ last' = Raised(call)
               /\ UNCHANGED <<expenses, expSeq>>
          ELSE /\ expenses' = [i \in DOMAIN expenses \cup {rowid} |->
                                 IF i = rowid
                                 THEN [user_id |-> user_id, date |-> date,
                                       category |-> category, amount |-> amount,
                                       note |-> note_or_empty(note)]
                                 ELSE expenses[i]]
               /\ expSeq' = rowid
               /\ last' = [call EXCEPT !.id = rowid, !.ret = Some(rowid)]
       /\ ExpensesFrame

\* if start_date: / if end_date: / if categories:
Truthy(opt) == opt # None /\ opt[1] # <<>>

Range(seq) == { seq[k] : k \in DOMAIN seq }

\* The WHERE clause of get_expenses_df, on the rows t of the expenses table.
where_expenses(t, user_id, start_date, end_date, categories) ==
    { i \in DOMAIN t :
        /\ t[i].user_id = user_id
        /\ Truthy(start_date) => StrLE(start_date[1], t[i].date)
        /\ Truthy(end_date) => StrLE(t[i].date, end_date[1])
        /\ Truthy(categories) => t[i].category \in Range(categories[1]) }

\* ORDER BY id ASC
order_before_idonly(t, i, j) == i < j

\* ORDER BY date ASC, id ASC
order_before(t, i, j) ==
    IF t[i].date = t[j].date THEN i < j ELSE StrLess(t[i].date, t[j].date)

\* The identifiers ids in that order.
RECURSIVE order_by(_, _)
order_by(t, ids) ==
    IF ids = {} THEN <<>>
    ELSE LET first == CHOOSE i \in ids : \A j \in ids \ {i} : order_before(t, i, j)
         IN <<first>> \o order_by(t, ids \ {first})

\* SELECT id AS ID, date AS Date, category AS Category, amount AS Amount, note AS Note
select_row(t, i) == [ID |-> i, Date |-> t[i].date, Category |-> t[i].category,
                     Amount |-> t[i].amount, Note |-> t[i].note]

\* The query of get_expenses_df, run on the rows t.
read_sql_query(t, user_id, start_date, end_date, categories) ==
    LET ids == order_by(t, where_expenses(t, user_id, start_date, end_date, categories))
    IN [k \in DOMAIN ids |-> select_row(t, ids[k])]

get_expenses_df(user_id, start_date, end_date, categories) ==
    read_sql_query(expenses, user_id, start_date, end_date, categories)

\* DELETE FROM expenses WHERE id = ?
delete_where_idonly(user_id, expense_id) ==
    { i \in DOMAIN expenses : i = expense_id }

\* DELETE FROM expenses WHERE user_id = ? AND id = ?
delete_where(user_id, expense_id) ==
    { i \in DOMAIN expenses : expenses[i].user_id = user_id /\ i = expense_id }

delete_expense(user_id, expense_id) ==
    /\ expenses' = [i \in DOMAIN expenses \ delete_where(user_id, expense_id) |-> expenses[i]]
    /\ last' = [NoCall EXCEPT !.op = "delete_expense", !.user_id = user_id,
                  !.id = expense_id]
    /\ UNCHANGED expSeq
    /\ ExpensesFrame

\* UPDATE expenses SET ... WHERE user_id = ? AND id = ?  The CHECK constraint is
\* evaluated for the rows the WHERE clause selects, so a call that selects no
\* row raises nothing.
update_where(user_id, expense_id) ==
    { i \in DOMAIN expenses : expenses[i].user_id = user_id /\ i = expense_id }

update_expense(user_id, expense_id, date, category, amount, note) ==
    LET call == [NoCall EXCEPT !.op = "update_expense", !.user_id = user_id,
                   !.id = expense_id]
        rows == update_where(user_id, expense_id)
    IN /\ IF rows # {} /\ ~check_amount(amount)
          THEN /\ last' = Raised(call)
               /\ UNCHANGED expenses
          ELSE /\ expenses' = [i \in DOMAIN expenses |->
                                 IF i \in rows
                                 THEN [expenses[i] EXCEPT !.date = date,
                                         !.category = category, !.amount = amount,
                                         !.note = note]
                                 ELSE expenses[i]]
               /\ last' = call
       /\ UNCHANGED expSeq
       /\ ExpensesFrame

\* SUM(amount) over a set of expenses.
RECURSIVE sum_amount(_)
sum_amount(ids) ==
    IF ids = {} THEN 0
    ELSE LET i == CHOOSE x \in ids : TRUE IN expenses[i].amount + sum_amount(ids \ {i})

\* f"{month}-30"
month_end_30(month) == month \o <<Dash, Chr(3), Chr(0)>>

\* f"{month}-31"
month_end(month) == month \o <<Dash, Chr(3), Chr(1)>>

get_month_total(user_id, month) ==
    LET start == month \o <<Dash, Chr(0), Chr(1)>>
        end == month_end(month)
    IN sum_amount({ i \in DOMAIN expenses :
                      /\ expenses[i].user_id = user_id
                      /\ StrLE(start, expenses[i].date)
                      /\ StrLE(expenses[i].date, end) })

\* ORDER BY total ASC LIMIT 1
top_groups_smallest(totals) ==
    { c \in DOMAIN totals : \A c2 \in DOMAIN totals : totals[c] <= totals[c2] }

\* GROUP BY category ORDER BY total DESC LIMIT 1: the rows the query may return.
\* SQLite leaves the order of groups with equal totals open, so every group
\* with the largest total is a possible first row.
top_groups(totals) ==
    { c \in DOMAIN totals : \A c2 \in DOMAIN totals : totals[c] >= totals[c2] }

get_top_category(user_id, start_date, end_date) ==
    LET ids == where_expenses(expenses, user_id, start_date, end_date, None)
        groups == { expenses[i].category : i \in ids }
        totals == [c \in groups |-> sum_amount({ i \in ids : expenses[i].category = c })]
    IN IF groups = {} THEN {None}
       ELSE { Some(<<c, totals[c]>>) : c \in top_groups(totals) }

\* The read-only calls: they return a value and write nothing.
read_expenses(op, user_id) ==
    /\ last' = [NoCall EXCEPT !.op = op, !.user_id = user_id]
    /\ UNCHANGED <<expenses, expSeq>>
    /\ ExpensesFrame

NextExpenses ==
    \/ \E u \in UserIds, e \in ExpenseInputs : add_expense(u, e[1], e[2], e[3], e[4])
    \/ \E u \in UserIds, i \in ExpenseIds, e \in ExpenseInputs :
         update_expense(u, i, e[1], e[2], e[3], NoteStr(e[4]))
    \/ \E u \in UserIds, i \in ExpenseIds : delete_expense(u, i)
    \/ \E u \in UserIds : read_expenses("get_expenses_df", u)
    \/ \E u \in UserIds : read_expenses("get_month_total", u)
    \/ \E u \in UserIds : read_expenses("get_top_category", u)

\* -------------------------------------------------------------- budgets
BudgetsFrame == UNCHANGED <<users, userSeq, pc, pending, created, expenses, expSeq>>

\* The rows of the budgets table t with the primary key (user_id, month).
budget_rows(t, user_id, month) ==
    { b \in t : b.user_id = user_id /\ b.month = month }

\* INSERT ... ON CONFLICT(user_id, month) DO NOTHING
upsert_budget_ignore(user_id, month, amount) ==
    IF budget_rows(budgets, user_id, month) = {}
    THEN budgets \cup {[user_id |-> user_id, month |-> month, amount |-> amount]}
    ELSE budgets

\* INSERT ... ON CONFLICT(user_id, month) DO UPDATE SET amount = excluded.amount
upsert_budget(user_id, month, amount) ==
    IF budget_rows(budgets, user_id, month) = {}
    THEN budgets \cup {[user_id |-> user_id, month |-> month, amount |-> amount]}
    ELSE { IF b \in budget_rows(budgets, user_id, month)
           THEN [b EXCEPT !.amount = amount] ELSE b : b \in budgets }

set_budget(user_id, month, amount) ==
    LET call == [NoCall EXCEPT !.op = "set_budget", !.user_id = user_id,
                   !.month = month, !.amount = amount]
    IN /\ IF ~check_amount(amount)
          THEN /\ last' = Raised(call)
               /\ UNCHANGED budgets
          ELSE /\ budgets' = upsert_budget(user_id, month, amount)
               /\ last' = call
       /\ BudgetsFrame

\* SELECT amount FROM budgets WHERE user_id = ? AND month = ?, fetchone(), on
\* the table t: the values get_budget may return.
fetch_budget(t, user_id, month) ==
    LET rows == budget_rows(t, user_id, month) IN
    IF rows = {} THEN {None} ELSE { Some(b.amount) : b \in rows }

get_budget_result(user_id, month) == fetch_budget(budgets, user_id, month)

get_budget(user_id, month) ==
    /\ \E r \in get_budget_result(user_id, month) :
         last' = [NoCall EXCEPT !.op = "get_budget", !.user_id = user_id,
                    !.month = month, !.ret = r]
    /\ UNCHANGED budgets
    /\ BudgetsFrame

NextBudgets ==
    \/ \E u \in UserIds, m \in Months, a \in BudgetAmounts : set_budget(u, m, a)
    \/ \E u \in UserIds, m \in Months : get_budget(u, m)

Init ==
    /\ users = <<>>
    /\ userSeq = 0
    /\ pc = [s \in Sessions |-> "idle"]
    /\ pending = [s \in Sessions |-> NoPending]
    /\ created = {}
    /\ expenses = <<>>
    /\ expSeq = 0
    /\ budgets = {}
    /\ last = NoCall

NextUsers ==
    \/ \E s \in Sessions, u \in Usernames, p \in Passwords : create_user_check(s, u, p)
    \/ \E s \in Sessions : create_user_insert(s)
    \/ \E u \in Usernames, p \in Passwords : authenticate_user(u, p)

SpecUsers == Init /\ [][NextUsers]_vars

SpecExpenses == Init /\ [][NextExpenses]_vars

SpecBudgets == Init /\ [][NextBudgets]_vars

\* The calls that write an amount, on both tables that hold one.  Budgets are
\* set for the month the sidebar offers by default, the first of its month.
BudgetMonth == month_str(<<2024, 1, 5>>)

NextAmounts ==
    \/ \E u \in UserIds, e \in ExpenseInputs : add_expense(u, e[1], e[2], e[3], e[4])
    \/ \E u \in UserIds, i \in ExpenseIds, e \in ExpenseInputs :
           update_expense(u, i, e[1], e[2], e[3], NoteStr(e[4]))
    \/ \E u \in UserIds, a \in BudgetAmounts : set_budget(u, BudgetMonth, a)

SpecAmounts == Init /\ [][NextAmounts]_vars

\* The whole storage layer.  No statement reads or writes two tables (SQLite
\* does not enforce the FOREIGN KEY clauses unless asked to), so the calls on
\* users, on expenses and on budgets are also checked table by table.
Next == NextUsers \/ NextExpenses \/ NextBudgets

Spec == Init /\ [][Next]_vars


\* ====================================================== the claims: helpers
\* pd.to_datetime(..., format="%Y-%m-%d") of app.py: the calendar date a date
\* text denotes, <<year, month, day>>; months likewise, <<year, month>>.
RECURSIVE Num(_)
Num(s) == IF s = <<>> THEN 0 ELSE 10 * Num(SubSeq(s, 1, Len(s) - 1)) + (s[Len(s)] - Chr(0))

to_datetime(s) == <<Num(SubSeq(s, 1, 4)), Num(SubSeq(s, 6, 7)), Num(SubSeq(s, 9, 10))>>
to_month(s) == <<Num(SubSeq(s, 1, 4)), Num(SubSeq(s, 6, 7))>>

\* Calendar order of two dates <<year, month, day>>.
Earlier(a, b) ==
    \/ a[1] < b[1]
    \/ a[1] = b[1] /\ a[2] < b[2]
    \/ a[1] = b[1] /\ a[2] = b[2] /\ a[3] < b[3]

NotLater(a, b) == a = b \/ Earlier(a, b)

OwnedBy(u) == { i \in DOMAIN expenses : expenses[i].user_id = u }

\* The expenses of u inside the optional inclusive date range.
InRange(u, start_date, end_date) ==
    { i \in OwnedBy(u) :
        /\ start_date # None => NotLater(to_datetime(start_date[1]), to_datetime(expenses[i].date))
        /\ end_date # None => NotLater(to_datetime(expenses[i].date), to_datetime(end_date[1])) }

\* The rows get_expenses_df(u) returns when no filter is given, as a set.
AllRows(u) == Range(get_expenses_df(u, None, None, None))
\* The same after the step.
AllRowsAfter(u) == Range(read_sql_query(expenses', u, None, None, None))
RowIds(rows) == { r.ID : r \in rows }

\* ------------------------------------------------------------------- C1
\* C1 (isolation), part 1: whatever the filters, every row get_expenses_df(B, ...)
\* returns is an expense owned by B.
C1_QueryIsolation ==
    last.op = "get_expenses_df" =>
    \A s \in DateFilters, e \in DateFilters, c \in CategoryLists :
        \A r \in Range(get_expenses_df(last.user_id, s, e, c)) :
            r.ID \in DOMAIN expenses /\ expenses[r.ID].user_id = last.user_id

\* C1, part 2: an expense keeps the owner it was added under, and an identifier
\* is given out once.
C1_OwnerStable ==
    /\ \A i \in DOMAIN expenses \cap DOMAIN expenses' :
           expenses'[i].user_id = expenses[i].user_id
    /\ \A i \in DOMAIN expenses' \ DOMAIN expenses : i > expSeq

\* C1, part 3: delete_expense(B, id) and update_expense(B, id, ...) on an expense
\* owned by another user leave it present and unchanged and raise nothing.
C1_ForeignCallNoOp ==
    ( /\ last'.op \in {"delete_expense", "update_expense"}
      /\ last'.id \in DOMAIN expenses
      /\ expenses[last'.id].user_id # last'.user_id )
    => /\ last'.id \in DOMAIN expenses'
       /\ expenses'[last'.id] = expenses[last'.id]
       /\ ~last'.raised

\* C1: isolation between users: queries return only the caller's expenses, and
\* deleting or updating another user's expense changes nothing and signals no error.
C1_Isolation == []C1_QueryIsolation /\ [][C1_OwnerStable /\ C1_ForeignCallNoOp]_vars

\* B has called delete_expense on an expense of A, and B has expenses of its own.
C1_Witness ==
    /\ last.op = "delete_expense"
    /\ last.id \in DOMAIN expenses
    /\ expenses[last.id].user_id # last.user_id
    /\ OwnedBy(last.user_id) # {}

\* ------------------------------------------------------------------- C4
NewRow(i, e) ==
    [ID |-> i, Date |-> e[1], Category |-> e[2], Amount |-> e[3],
     Note |-> IF e[4] = None THEN "" ELSE e[4][1]]

\* What the unfiltered query returns to each user before and after a step.
RowsBefore == [v \in UserIds |-> AllRows(v)]
RowsAfter == [v \in UserIds |-> AllRowsAfter(v)]
Without(rows, i) == [v \in UserIds |-> { r \in rows[v] : r.ID # i }]

\* An accepted add_expense(u, ...) adds one row with a fresh identifier and the
\* submitted values (an absent note as "") to u's rows and to no other user's.
C4_Add ==
    \A u \in UserIds :
        last'.user_id = u =>
        /\ \A e \in ExpenseInputs :
               add_expense(u, e[1], e[2], e[3], e[4]) =>
                   /\ e[3] >= 0 => ~last'.raised
                   /\ ~last'.raised => NewRow(last'.ret[1], e) \in AllRowsAfter(u)
        /\ IF last'.raised THEN RowsAfter = RowsBefore
           ELSE /\ last'.ret[1] \notin DOMAIN expenses
                /\ Without(RowsAfter, last'.ret[1]) = RowsBefore

\* An accepted update_expense(u, i, ...) replaces the values of row i of u, if
\* u owns i, and changes nothing else: no other row, no identifier, no owner.
C4_Update ==
    \A u \in UserIds, i \in ExpenseIds :
        (last'.user_id = u /\ last'.id = i) =>
        /\ \A e \in ExpenseInputs :
               update_expense(u, i, e[1], e[2], e[3], NoteStr(e[4])) =>
                   /\ e[3] >= 0 => ~last'.raised
                   /\ (~last'.raised /\ i \in OwnedBy(u)) => NewRow(i, e) \in AllRowsAfter(u)
        /\ IF last'.raised \/ i \notin OwnedBy(u) THEN RowsAfter = RowsBefore
           ELSE Without(RowsAfter, i) = Without(RowsBefore, i)

\* delete_expense(u, i) removes row i from u's rows and nothing else.
C4_Delete ==
    \A u \in UserIds, i \in ExpenseIds :
        (last'.user_id = u /\ last'.id = i /\ delete_expense(u, i)) =>
        /\ ~last'.raised
        /\ RowsAfter = [RowsBefore EXCEPT ![u] = { r \in @ : r.ID # i }]

C4_Step ==
    CASE last'.op = "add_expense" -> C4_Add
      [] last'.op = "update_expense" -> C4_Update
      [] last'.op = "delete_expense" -> C4_Delete
      [] OTHER -> RowsAfter = RowsBefore

\* Every expense is returned once, to its owner.
C4_OneRowEach ==
    \A u \in UserIds :
        /\ Len(get_expenses_df(u, None, None, None)) = Cardinality(OwnedBy(u))
        /\ RowIds(AllRows(u)) = OwnedBy(u)

\* C4: round trip: the unfiltered query of u starts empty and changes exactly as
\* the accepted add, owned update and delete calls of u say; so it returns one row
\* per expense added under u and not deleted, with the values of the latest add
\* or owned update, and an update changes no other expense, identifier or owner.
C4_RoundTrip ==
    /\ \A u \in UserIds : AllRows(u) = {}
    /\ []C4_OneRowEach
    /\ [][C4_Step]_vars

\* u has updated an expense of its own while another expense is stored.
C4_Witness ==
    /\ last.op = "update_expense" /\ ~last.raised
    /\ last.id \in OwnedBy(last.user_id)
    /\ Cardinality(DOMAIN expenses) = 2

\* ------------------------------------------------------------------- C6
\* C6: get_expenses_df returns exactly the expenses of u that pass every
\* supplied filter, a supplied empty category list being a set with no members.
C6_Filters ==
    last.op = "get_expenses_df" =>
    \A s \in DateFilters, e \in DateFilters, c \in CategoryLists :
        RowIds(Range(get_expenses_df(last.user_id, s, e, c))) =
            { i \in InRange(last.user_id, s, e) :
                c # None => expenses[i].category \in Range(c[1]) }

\* ------------------------------------------------------------------- C7
\* C7: the rows get_expenses_df returns are in calendar order of their dates and,
\* on one date, in order of their identifiers; the order is strict, so the
\* stored rows and the arguments determine the sequence.
C7_Ordering ==
    last.op = "get_expenses_df" =>
    \A s \in DateFilters, e \in DateFilters, c \in CategoryLists :
        LET df == get_expenses_df(last.user_id, s, e, c) IN
        \A k \in DOMAIN df, l \in DOMAIN df :
            k < l => \/ Earlier(to_datetime(df[k].Date), to_datetime(df[l].Date))
                     \/ df[k].Date = df[l].Date /\ df[k].ID < df[l].ID

\* A query has returned two rows, the later-added one first.
C7_Witness ==
    /\ last.op = "get_expenses_df"
    /\ LET df == get_expenses_df(last.user_id, None, None, None) IN
         Len(df) = 2 /\ df[1].ID > df[2].ID

\* ------------------------------------------------------------------- C8
QueryMonths == Months \cup { month_str(<<2023, 12, 1>>) }

InMonth(u, m) == { i \in OwnedBy(u) : to_month(expenses[i].date) = to_month(m) }

\* C8: get_month_total(u, m) is the sum of the amounts of the expenses of u
\* dated in calendar month m, and 0 when there is none.
C8_MonthTotal ==
    last.op = "get_month_total" =>
    \A m \in QueryMonths :
        /\ get_month_total(last.user_id, m) = sum_amount(InMonth(last.user_id, m))
        /\ InMonth(last.user_id, m) = {} => get_month_total(last.user_id, m) = 0

\* A month total was asked of a user with an expense on the 31st of a month and
\* an expense in another month.
C8_Witness ==
    /\ last.op = "get_month_total"
    /\ \E i \in OwnedBy(last.user_id), j \in OwnedBy(last.user_id) :
         /\ to_datetime(expenses[i].date)[3] = 31 /\ expenses[i].amount > 0
         /\ to_month(expenses[j].date) # to_month(expenses[i].date)

\* ------------------------------------------------------------------- C9
CategoryTotal(ids, c) == sum_amount({ i \in ids : expenses[i].category = c })

\* C9: get_top_category returns None exactly when u has no expense in the range;
\* otherwise a pair of a category and its in-range sum, which no other
\* category's in-range sum exceeds.
C9_TopCategory ==
    last.op = "get_top_category" =>
    \A s \in DateFilters, e \in DateFilters :
        LET inside == InRange(last.user_id, s, e) IN
        \A r \in get_top_category(last.user_id, s, e) :
            /\ r = None <=> inside = {}
            /\ r # None =>
                 /\ r[1][2] = CategoryTotal(inside, r[1][1])
                 /\ \A c \in Categories : r[1][2] >= CategoryTotal(inside, c)

\* The top category was asked of a user whose two categories have different sums.
C9_Witness ==
    /\ last.op = "get_top_category"
    /\ LET ids == OwnedBy(last.user_id) IN
         /\ CategoryTotal(ids, "Travel") > CategoryTotal(ids, "Food")
         /\ CategoryTotal(ids, "Food") > 0
         /\ get_top_category(last.user_id, None, None) =
                {Some(<<"Travel", CategoryTotal(ids, "Travel")>>)}

\* ------------------------------------------------------------------- C2
\* A create_user call for this user name, trimmed, has returned an identifier.
Created(username) == \E c \in created : strip(c.username) = strip(username)

ReturnedNone(s, username, password) ==
    [NoCall EXCEPT !.op = "create_user", !.session = s,
       !.username = username, !.password = password]

\* C2, part 1: no two rows of users have the same username.
C2_UniqueUsernames ==
    \A i \in DOMAIN users, j \in DOMAIN users :
        i # j => users[i].username # users[j].username

\* C2, part 2: a create_user call made after one for the same trimmed user name
\* has returned an identifier returns None, whatever its password, and leaves
\* the users table as it is.
C2_LaterCreateFails ==
    \A s \in Sessions :
        (pc[s] = "idle" /\ last'.op = "create_user") =>
        \A U \in Usernames :
            Created(U) =>
            \A P \in Passwords :
                create_user_check(s, U, P) =>
                    /\ last' = ReturnedNone(s, U, P)
                    /\ pc'[s] = "idle"
                    /\ users' = users /\ userSeq' = userSeq

\* C2: user names are unique, and creating a name again fails with None.
C2_Uniqueness == []C2_UniqueUsernames /\ [][C2_LaterCreateFails]_vars

\* A second create_user of a created name, spelled with surrounding whitespace
\* and with another password, has returned None.
C2_Witness ==
    /\ last.op = "create_user" /\ ~last.raised /\ last.ret = None
    /\ last.password # <<>>
    /\ \E c \in created :
         /\ strip(c.username) = strip(last.username)
         /\ c.username # last.username
         /\ c.password # last.password

\* ------------------------------------------------------------------- C3
\* C3, part 1: a created user authenticates with its password, also when the
\* name is given with surrounding whitespace, and with no other password; a
\* name never created does not authenticate; the call returns that result.
C3_AuthCorrect ==
    /\ \A c \in created, U \in Usernames :
           strip(U) = strip(c.username) =>
               /\ authenticate_result(U, c.password) = Some(c.id)
               /\ \A P2 \in Passwords \ {c.password} : authenticate_result(U, P2) = None
    /\ \A U \in Usernames, P \in Passwords :
           ~Created(U) => authenticate_result(U, P) = None
    /\ last.op = "authenticate_user" =>
           /\ ~last.raised
           /\ Created(last.username) =>
                \E c \in created :
                    /\ strip(c.username) = strip(last.username)
                    /\ last.ret = IF last.password = c.password THEN Some(c.id) ELSE None
           /\ ~Created(last.username) => last.ret = None

\* C3, part 2: authenticate_user writes nothing.
C3_ReadOnly ==
    (last'.op = "authenticate_user" /\ last' # last) =>
        UNCHANGED <<users, userSeq, created, expenses, expSeq, budgets>>

\* C3: authentication is correct and changes no stored state.
C3_Auth == []C3_AuthCorrect /\ [][C3_ReadOnly]_vars

\* With two users created, one has logged in under a name given with whitespace.
C3_Witness ==
    /\ last.op = "authenticate_user"
    /\ last.ret # None
    /\ last.username # strip(last.username)
    /\ Cardinality(created) = 2

\* ------------------------------------------------------------------ C10
\* C10: create_user never raises, also when two calls for one name interleave
\* between SELECT and INSERT; exactly one of them returns an identifier and one
\* row with the name exists.
C10_DuplicateReturnsNone ==
    /\ last.op = "create_user" => ~last.raised
    /\ \A U \in Usernames :
           /\ Cardinality({ c \in created : strip(c.username) = strip(U) }) <= 1
           /\ Cardinality(select_user(strip(U))) =
                Cardinality({ c \in created : strip(c.username) = strip(U) })

\* ------------------------------------------------------------------- C5
\* C5, part 1: at most one budget row per (user, month).
C5_OneRowPerKey ==
    \A u \in UserIds, m \in Months : Cardinality(budget_rows(budgets, u, m)) <= 1

\* C5, part 2: an accepted set_budget(u, m, a) makes get_budget(u, m) return a
\* and changes the budget of no other (user, month); no other call changes any.
C5_Step ==
    /\ (last'.op = "set_budget" /\ last'.amount >= 0) => ~last'.raised
    /\ \A u \in UserIds, m \in Months :
           fetch_budget(budgets', u, m) =
               IF /\ last'.op = "set_budget" /\ ~last'.raised
                  /\ last'.user_id = u /\ last'.month = m
               THEN {Some(last'.amount)}
               ELSE fetch_budget(budgets, u, m)

\* C5: budgets are upserted: get_budget starts at None and returns the amount of
\* the latest accepted set_budget of its (user, month), one row per pair.
C5_BudgetUpsert ==
    /\ \A u \in UserIds, m \in Months : get_budget_result(u, m) = {None}
    /\ []C5_OneRowPerKey
    /\ [][C5_Step]_vars

\* A budget has been set while the same user has a budget for another month and
\* another user has one for the same month.
C5_Witness ==
    /\ last.op = "set_budget" /\ ~last.raised
    /\ get_budget_result(last.user_id, last.month) = {Some(last.amount)}
    /\ \E m \in Months \ {last.month} : get_budget_result(last.user_id, m) # {None}
    /\ \E u \in UserIds \ {last.user_id} : get_budget_result(u, last.month) # {None}

\* ------------------------------------------------------------------ C11
\* C11, part 1: every stored expense amount and budget amount is >= 0.
C11_StoredNonNegative ==
    /\ \A i \in DOMAIN expenses : expenses[i].amount >= 0
    /\ \A b \in budgets : b.amount >= 0

Rejected == last'.raised /\ expenses' = expenses /\ budgets' = budgets

\* C11, part 2 for add_expense and set_budget: a call with a negative amount
\* fails with the store's error and leaves both tables as they are.
C11_InsertRejected ==
    /\ last'.op = "add_expense" =>
         \A u \in UserIds, e \in ExpenseInputs :
             (e[3] < 0 /\ add_expense(u, e[1], e[2], e[3], e[4])) => Rejected
    /\ last'.op = "set_budget" =>
         \A u \in UserIds, m \in Months, a \in BudgetAmounts :
             (a < 0 /\ set_budget(u, m, a)) => Rejected

\* C11, part 2 for update_expense as stated: every call with a negative amount
\* fails with the store's error and leaves both tables as they are.
C11_EveryUpdateRejected ==
    last'.op = "update_expense" =>
        \A u \in UserIds, i \in ExpenseIds, e \in ExpenseInputs :
            (e[3] < 0 /\ update_expense(u, i, e[1], e[2], e[3], NoteStr(e[4])))
                => Rejected

\* C11, part 2 for update_expense on an expense of the caller: a call with a
\* negative amount fails with the store's error; on any other identifier it
\* returns normally; either way both tables stay as they are.
C11_OwnedUpdateRejected ==
    last'.op = "update_expense" =>
        \A u \in UserIds, i \in ExpenseIds, e \in ExpenseInputs :
            (e[3] < 0 /\ update_expense(u, i, e[1], e[2], e[3], NoteStr(e[4]))) =>
                /\ last'.raised <=> i \in OwnedBy(u)
                /\ expenses' = expenses /\ budgets' = budgets

\* C11 as stated: stored amounts are never negative and every add_expense,
\* update_expense and set_budget call with a negative amount is rejected with
\* an error, changing nothing.
C11_AsStated ==
    []C11_StoredNonNegative /\ [][C11_InsertRejected /\ C11_EveryUpdateRejected]_vars

\* C11 with update_expense restricted to expenses the caller owns: stored
\* amounts are never negative; add_expense and set_budget with a negative
\* amount, and update_expense with a negative amount on an expense of the
\* caller, are rejected with an error and change nothing.
C11_NonNegativeAmounts ==
    []C11_StoredNonNegative /\ [][C11_InsertRejected /\ C11_OwnedUpdateRejected]_vars

\* An update of an owned expense has just been rejected while a budget and a
\* second expense are stored.
C11_Witness ==
    /\ last.op = "update_expense" /\ last.raised
    /\ last.id \in OwnedBy(last.user_id)
    /\ Cardinality(DOMAIN expenses) = 2
    /\ budgets # {}

====
